---------------------------- MODULE Spec2Model ----------------------------
(***************************************************************************)
(* Model of setup_schema.py: the DDL synthesizer get_all_ddl, the SQL      *)
(* corpus extractor extract_sql_queries and the training run main.         *)
(*                                                                         *)
(* Text is a sequence of one-character strings.  The text read from the    *)
(* queries file is a sequence of cells [ch, at]: the character and the     *)
(* offset it has in the file (a history field, never read by the program), *)
(* so that a property can tell where an extracted character came from.     *)
(* A cell the program makes itself (the semicolon it adds back) has at = 0.*)
(***************************************************************************)
EXTENDS Integers, Sequences, FiniteSets, TLC

VARIABLES
    args,            \* argparse result: skip_train, skip_sql_train
    env,             \* environment: api_key, db_creds
    db,              \* what the inspector reports: sequence of [name, columns]
    fs,              \* the file at args.sql_file: [exists, content]
    pc,              \* position of the run in main (or in the function run on its own)
    ddl_statements,  \* main: result of get_all_ddl
    file_exists,     \* main: first component of extract_sql_queries' result
    sql_queries,     \* main: second component of extract_sql_queries' result
    ddl_i,           \* main: position of the DDL training loop
    i,               \* main: enumerate index of the SQL training loop
    trained,         \* history: the calls of vn.train, in order
    asked,           \* history: the calls of vn.generate_question, in order
    failed,          \* history: loop positions whose try body raised
    stdout,          \* history: what was printed, in order
    file_reads       \* history: number of times the queries file was opened

vars == <<args, env, db, fs, pc, ddl_statements, file_exists, sql_queries, ddl_i,
          i, trained, asked, failed, stdout, file_reads>>

---------------------------------------------------------------------------
(* Characters *)

LowerLetters ==
    <<"a","b","c","d","e","f","g","h","i","j","k","l","m","n","o","p","q","r","s","t","u","v","w","x","y","z">>

UpperLetters ==
    <<"A","B","C","D","E","F","G","H","I","J","K","L","M","N","O","P","Q","R","S","T","U","V","W","X","Y","Z">>

Digits ==
    <<"0","1","2","3","4","5","6","7","8","9">>

Range(s) == {s[k] : k \in DOMAIN s}

\* \w of Python's re, on ASCII text
WordChars == Range(LowerLetters) \cup Range(UpperLetters) \cup Range(Digits) \cup {"_"}

\* \s of Python's re and the characters str.strip() removes, on ASCII text
SpaceChars == {" ", "\t", "\n", "\r"}

\* re.IGNORECASE: both sides of a comparison are folded to one case
UpperOf ==
    [c \in Range(LowerLetters) |->
        UpperLetters[CHOOSE k \in DOMAIN LowerLetters : LowerLetters[k] = c]]

Fold(c) == IF c \in DOMAIN UpperOf THEN UpperOf[c] ELSE c

\* the alternatives of the validity filter's pattern
Verbs ==
    { <<"S","E","L","E","C","T">>, <<"I","N","S","E","R","T">>,
      <<"U","P","D","A","T","E">>, <<"D","E","L","E","T","E">>,
      <<"C","R","E","A","T","E">>, <<"A","L","T","E","R">>,
      <<"D","R","O","P">>, <<"W","I","T","H">> }

---------------------------------------------------------------------------
(* Text helpers *)

\* file.read(): the characters of the file, each with its offset
ReadFile(raw) == [k \in DOMAIN raw |-> [ch |-> raw[k], at |-> k]]

\* the characters of a cell sequence
Text(s) == [k \in DOMAIN s |-> s[k].ch]

Ch(s, k) == s[k].ch

\* first index >= k of s whose character is not in set S (Len(s)+1 if none):
\* where a greedy  [S]*  begun at k stops
RECURSIVE SkipIn(_, _, _)
SkipIn(s, k, S) ==
    IF k <= Len(s) /\ Ch(s, k) \in S THEN SkipIn(s, k + 1, S) ELSE k

\* the literal "--" at index p
DashesAt(s, p) == p + 1 <= Len(s) /\ Ch(s, p) = "-" /\ Ch(s, p + 1) = "-"

\* str.strip()
RECURSIVE LStrip(_)
LStrip(s) ==
    IF s # <<>> /\ Head(s).ch \in SpaceChars THEN LStrip(Tail(s)) ELSE s

RECURSIVE RStrip(_)
RStrip(s) ==
    IF s # <<>> /\ s[Len(s)].ch \in SpaceChars
    THEN RStrip(SubSeq(s, 1, Len(s) - 1)) ELSE s

Strip(s) == RStrip(LStrip(s))

---------------------------------------------------------------------------
(* extract_sql_queries *)

\* One past the end of the match of  --\s*=+|--\s*\w+  that begins at p, 0 if
\* there is none.  \s* is greedy and what follows it is never white space, so
\* backtracking into it cannot help; the first alternative is tried first.
DelimiterEnd(s, p) ==
    IF ~DashesAt(s, p) THEN 0
    ELSE LET q == SkipIn(s, p + 2, SpaceChars) IN
         IF q > Len(s) THEN 0
         ELSE IF Ch(s, q) = "=" THEN SkipIn(s, q, {"="})
         ELSE IF Ch(s, q) \in WordChars THEN SkipIn(s, q, WordChars)
         ELSE 0

\* the matches re.split finds, left to right, not overlapping: <<first, end>>
RECURSIVE DelimiterMatches(_, _)
DelimiterMatches(s, p) ==
    IF p > Len(s) THEN <<>>
    ELSE LET e == DelimiterEnd(s, p) IN
         IF e # 0 THEN <<<<p, e>>>> \o DelimiterMatches(s, e)
         ELSE DelimiterMatches(s, p + 1)

\* re.split(r'--\s*=+|--\s*\w+', content): the text between the matches
RECURSIVE SplitBlocksFrom(_, _, _)
SplitBlocksFrom(s, p, start) ==
    IF p > Len(s) THEN <<SubSeq(s, start, Len(s))>>
    ELSE LET e == DelimiterEnd(s, p) IN
         IF e # 0 THEN <<SubSeq(s, start, p - 1)>> \o SplitBlocksFrom(s, e, e)
         ELSE SplitBlocksFrom(s, p + 1, start)

SplitBlocks(content) == SplitBlocksFrom(content, 1, 1)

\* where  .*?$  (re.MULTILINE) begun at k stops: before the next newline, or at
\* the end of the text
RECURSIVE LineEnd(_, _)
LineEnd(s, k) ==
    IF k <= Len(s) /\ Ch(s, k) # "\n" THEN LineEnd(s, k + 1) ELSE k

\* re.sub(r'--.*?$', '', block, flags=re.MULTILINE)
RECURSIVE StripCommentsFrom(_, _)
StripCommentsFrom(s, p) ==
    IF p > Len(s) THEN <<>>
    ELSE IF DashesAt(s, p) THEN StripCommentsFrom(s, LineEnd(s, p + 2))
    ELSE <<s[p]>> \o StripCommentsFrom(s, p + 1)

StripComments(block) == StripCommentsFrom(block, 1)

\* re.split(r';\s*', block)
RECURSIVE SplitSemicolonsFrom(_, _, _)
SplitSemicolonsFrom(s, p, start) ==
    IF p > Len(s) THEN <<SubSeq(s, start, Len(s))>>
    ELSE IF Ch(s, p) = ";"
         THEN LET e == SkipIn(s, p + 1, SpaceChars) IN
              <<SubSeq(s, start, p - 1)>> \o SplitSemicolonsFrom(s, e, e)
    ELSE SplitSemicolonsFrom(s, p + 1, start)

SplitSemicolons(block) == SplitSemicolonsFrom(block, 1, 1)

\* the fragments kept as they are: [q for q in re.split(...) if q.strip()]
IndividualQueries_Unstripped(block) ==
    SelectSeq(SplitSemicolons(block), LAMBDA q : Strip(q) # <<>>)

\* [q.strip() for q in re.split(r';\s*', block) if q.strip()]
IndividualQueries(block) ==
    LET parts == SplitSemicolons(block)
        stripped == [k \in DOMAIN parts |-> Strip(parts[k])]
    IN  SelectSeq(stripped, LAMBDA q : q # <<>>)

\* verb v, case folded, at index p of query with a \b on both sides
VerbAt(query, p, v) ==
    /\ p + Len(v) - 1 <= Len(query)
    /\ \A k \in 1..Len(v) : Fold(Ch(query, p + k - 1)) = v[k]
    /\ (p = 1 \/ Ch(query, p - 1) \notin WordChars)
    /\ (p + Len(v) > Len(query) \/ Ch(query, p + Len(v)) \notin WordChars)

\* the pattern without its \b: a verb anywhere in the query
LooksLikeSql_Substring(query) ==
    \E p \in 1..Len(query) : \E v \in Verbs :
        /\ p + Len(v) - 1 <= Len(query)
        /\ \A k \in 1..Len(v) : Fold(Ch(query, p + k - 1)) = v[k]

\* re.search(r'\b(SELECT|INSERT|UPDATE|DELETE|CREATE|ALTER|DROP|WITH)\b', query, re.IGNORECASE)
LooksLikeSql(query) ==
    \E p \in 1..Len(query) : \E v \in Verbs : VerbAt(query, p, v)

\* the semicolon the program adds back
Semicolon == [ch |-> ";", at |-> 0]

\* the inner for loop: queries.append(query + ';') for the queries that pass
KeptQueries(individual_queries) ==
    LET kept == SelectSeq(individual_queries, LooksLikeSql)
    IN  [k \in DOMAIN kept |-> Append(kept[k], Semicolon)]

\* the body of the outer for loop without its re.sub
BlockQueries_CommentsKept(block) == KeptQueries(IndividualQueries(block))

\* the body of the outer for loop, for one block
BlockQueries(block) == KeptQueries(IndividualQueries(StripComments(block)))

RECURSIVE ConcatAll(_)
ConcatAll(ss) == IF ss = <<>> THEN <<>> ELSE Head(ss) \o ConcatAll(Tail(ss))

\* lines 70-86: the queries of all the blocks, in block order
ExtractQueries(content) ==
    LET query_blocks == SplitBlocks(content)
    IN  ConcatAll([k \in DOMAIN query_blocks |-> BlockQueries(query_blocks[k])])

\* a missing file reported as a file without queries
extract_sql_queries_MissingAsEmpty(f) ==
    IF ~f.exists
    THEN [ret |-> <<TRUE, <<>>>>, reads |-> 0]
    ELSE [ret |-> <<TRUE, ExtractQueries(ReadFile(f.content))>>, reads |-> 1]

\* extract_sql_queries(file_path) on file f = [exists, content]: the returned
\* pair, and how many times the file was opened
extract_sql_queries(f) ==
    IF ~f.exists
    THEN [ret |-> <<FALSE, <<>>>>, reads |-> 0]
    ELSE [ret |-> <<TRUE, ExtractQueries(ReadFile(f.content))>>, reads |-> 1]

---------------------------------------------------------------------------
(* Inputs of the extractor *)

\* the spec's end-to-end scenarios and examples, as file contents
Scenario2 ==
    <<"-","-"," ","=","=","=","=","=","=","=","=","=","=","\n","S","E","L","E","C","T"," ","*"," ","F","R","O","M"," ","u","s","e","r","s",";"," ","-","-"," ","g","e","t"," ","a","l","l","\n","U","P","D","A","T","E"," ","u","s","e","r","s"," ","S","E","T"," ","x","=","1",";","\n">>

Scenario3 ==
    <<"j","u","s","t"," ","a"," ","c","o","m","m","e","n","t"," ","-","-"," ","n","o","t","h","i","n","g"," ","h","e","r","e">>

Scenario4 ==
    <<"S","E","L","E","C","T"," ","1">>

ScenarioSelect1 ==
    <<"S","E","L","E","C","T"," ","1",";">>

ScenarioUpdatedAt ==
    <<"U","P","D","A","T","E","D","_","A","T"," ","="," ","n","o","w","(",")">>

ScenarioInline ==
    <<"S","E","L","E","C","T"," ","a"," ","-","-"," ","c","o","l","\n","F","R","O","M"," ","t",";">>

ScenarioThree ==
    <<"S","E","L","E","C","T"," ","1",";","\n","D","R","O","P"," ","t",";","\n","W","I","T","H"," ","c",";">>

\* two statements without terminators under a banner line
ScenarioBanner ==
    <<"S","E","L","E","C","T"," ","1","\n","-","-"," ","=","=","=","=","\n","S","E","L","E","C","T"," ","2">>

Scenarios ==
    {Scenario2, Scenario3, Scenario4, ScenarioSelect1, ScenarioUpdatedAt,
     ScenarioInline, ScenarioThree, ScenarioBanner}

\* what the generated file contents are made of: a comment marker, a banner
\* character, a word character, white space, the terminator, a verb in upper
\* case and one in lower case
Pieces ==
    { <<"-","-">>, <<"=">>, <<"a">>, <<" ">>, <<"\n">>, <<";">>,
      <<"S","E","L","E","C","T">>, <<"w","i","t","h">> }

\* a generated file content is made of at most MaxPieces pieces
MaxPieces == 4

RECURSIVE TextsOf(_)
TextsOf(n) ==
    IF n = 0 THEN {<<>>}
    ELSE LET shorter == TextsOf(n - 1)
         IN  shorter \cup {t \o p : t \in shorter, p \in Pieces}

\* the file contents explored: those of at most n pieces, and the scenarios
ContentsUpTo(n) == TextsOf(n) \cup Scenarios

---------------------------------------------------------------------------
(* get_all_ddl *)

\* a DDL statement is the sequence of the strings the f-strings and join put
\* one after the other

\* column.get('nullable', False)
Nullable_DefaultFalse(column) ==
    IF "nullable" \in DOMAIN column THEN column.nullable ELSE FALSE

\* column.get('nullable', True)
Nullable(column) ==
    IF "nullable" \in DOMAIN column THEN column.nullable ELSE TRUE

\* lines 52-54
ColumnDef(column) ==
    <<column.name, " ", column.type>>
        \o (IF ~Nullable(column) THEN <<" NOT NULL">> ELSE <<>>)

\* ",\n  ".join(column_defs)
RECURSIVE Join(_, _)
Join(column_defs, sep) ==
    IF column_defs = <<>> THEN <<>>
    ELSE IF Len(column_defs) = 1 THEN Head(column_defs)
    ELSE Head(column_defs) \o <<sep>> \o Join(Tail(column_defs), sep)

\* lines 48-57, for one table
TableDdl(table) ==
    LET column_defs == [k \in DOMAIN table.columns |-> ColumnDef(table.columns[k])]
    IN  <<"CREATE TABLE ", table.name, " (\n  ">>
            \o Join(column_defs, ",\n  ") \o <<"\n);">>

\* get_all_ddl(engine), the inspector reporting the tables of database
get_all_ddl(database) ==
    [k \in DOMAIN database |-> TableDdl(database[k])]

---------------------------------------------------------------------------
(* Inputs of the DDL synthesizer *)

\* the columns a table is made of: a NOT NULL one, a nullable one, and one
\* whose nullability the inspector does not report
ColumnChoices ==
    { [name |-> "id", type |-> "INTEGER", nullable |-> FALSE],
      [name |-> "email", type |-> "VARCHAR", nullable |-> TRUE],
      [name |-> "note", type |-> "TEXT"] }

TableNames == {"users", "orders", "items"}

\* a table has at most MaxCols columns, a database at most MaxTables tables
MaxCols == 2

MaxTables == 2

\* the sequences of at most n distinct elements of S
InjectiveSeqs(S, n) ==
    UNION { { q \in [1..m -> S] : \A a, b \in 1..m : q[a] = q[b] => a = b }
            : m \in 0..n }

\* the databases explored: at most t tables of distinct names, each of at most
\* c distinct columns
DatabasesUpTo(t, c) ==
    UNION { { [k \in DOMAIN names |-> [name |-> names[k], columns |-> cols[k]]]
              : cols \in [DOMAIN names -> InjectiveSeqs(ColumnChoices, c)] }
            : names \in InjectiveSeqs(TableNames, t) }

\* scenario 1 of the spec, and a table without columns
UsersTable ==
    [name |-> "users",
     columns |-> << [name |-> "id", type |-> "INTEGER", nullable |-> FALSE],
                    [name |-> "email", type |-> "VARCHAR", nullable |-> TRUE] >>]

EmptyTable == [name |-> "orders", columns |-> <<>>]

---------------------------------------------------------------------------
(* main *)

MissingFile == [exists |-> FALSE, content |-> <<>>]

FileWith(content) == [exists |-> TRUE, content |-> content]

\* the runs of main that are explored
MainArgs == [skip_train : BOOLEAN, skip_sql_train : BOOLEAN]

MainEnvs == [api_key : BOOLEAN, db_creds : BOOLEAN]

MainDbs == { <<>>, <<UsersTable>>, <<EmptyTable, UsersTable>> }

MainFiles ==
    {MissingFile} \cup
    {FileWith(c) : c \in {<<>>, Scenario3, Scenario4, Scenario2, ScenarioThree}}

\* lines 101-121: the API key and the database credentials
LoadConfig ==
    /\ pc = "main"
    /\ IF ~env.api_key
       THEN /\ stdout' = Append(stdout, [msg |-> "error_no_api_key"])
            /\ pc' = "done"
       ELSE IF ~env.db_creds
       THEN /\ stdout' = Append(stdout, [msg |-> "error_no_credentials"])
            /\ pc' = "done"
       ELSE /\ stdout' = stdout
            /\ pc' = "connect"
    /\ UNCHANGED <<args, env, db, fs, ddl_statements, file_exists, sql_queries,
                   ddl_i, i, trained, asked, failed, file_reads>>

\* lines 130-135 and 208-209: create_engine and get_all_ddl, either of which
\* may raise
Connect ==
    /\ pc = "connect"
    /\ \E raised \in BOOLEAN :
         IF raised
         THEN /\ stdout' = Append(stdout, [msg |-> "error"])
              /\ pc' = "done"
              /\ UNCHANGED ddl_statements
         ELSE /\ ddl_statements' = get_all_ddl(db)
              /\ stdout' = Append(stdout, [msg |-> "connected"])
              /\ pc' = IF args.skip_train THEN "dry_run" ELSE "init_vanna"
    /\ UNCHANGED <<args, env, db, fs, file_exists, sql_queries, ddl_i, i,
                   trained, asked, failed, file_reads>>

\* what lines 148-156 print for the result of extract_sql_queries
DryRunQueryLines(found, queries) ==
    IF ~found THEN <<[msg |-> "info_not_found"]>>
    ELSE IF queries = <<>> THEN <<[msg |-> "info_no_valid_queries"]>>
    ELSE [k \in DOMAIN queries |-> [msg |-> "query", n |-> k, text |-> Text(queries[k])]]

\* what lines 138-141 print
DryRunDdlLines ==
    [k \in DOMAIN ddl_statements |-> [msg |-> "ddl", text |-> ddl_statements[k]]]

\* lines 137-141 and 157: --skip-train with --skip-sql-train prints the DDL
\* and returns
DryRunSchema ==
    /\ pc = "dry_run"
    /\ args.skip_sql_train
    /\ stdout' = stdout \o DryRunDdlLines
    /\ pc' = "done"
    /\ UNCHANGED <<args, env, db, fs, ddl_statements, file_exists, sql_queries,
                   ddl_i, i, trained, asked, failed, file_reads>>

\* lines 137-157: --skip-train alone prints the DDL, extracts the SQL file,
\* prints what it found and returns
DryRunQueries ==
    /\ pc = "dry_run"
    /\ ~args.skip_sql_train
    /\ LET r == extract_sql_queries(fs) IN
         /\ file_exists' = r.ret[1]
         /\ sql_queries' = r.ret[2]
         /\ file_reads' = file_reads + r.reads
         /\ stdout' = stdout \o DryRunDdlLines \o DryRunQueryLines(r.ret[1], r.ret[2])
    /\ pc' = "done"
    /\ UNCHANGED <<args, env, db, fs, ddl_statements, ddl_i, i, trained, asked, failed>>

\* lines 159-173: the store and the chat model are set up, which may raise
InitVanna ==
    /\ pc = "init_vanna"
    /\ \E raised \in BOOLEAN :
         IF raised
         THEN /\ stdout' = Append(stdout, [msg |-> "error"])
              /\ pc' = "done"
         ELSE /\ stdout' = stdout
              /\ pc' = "train_ddl"
    /\ ddl_i' = 1
    /\ UNCHANGED <<args, env, db, fs, ddl_statements, file_exists, sql_queries, i,
                   trained, asked, failed, file_reads>>

\* lines 177-179: one turn of the DDL loop; vn.train may raise, which the
\* handler of line 208 catches
TrainDdl ==
    /\ pc = "train_ddl"
    /\ ddl_i <= Len(ddl_statements)
    /\ \E raised \in BOOLEAN :
         /\ trained' = Append(trained, [ddl |-> ddl_statements[ddl_i], raised |-> raised])
         /\ IF raised
            THEN /\ stdout' = Append(stdout, [msg |-> "error"])
                 /\ pc' = "done"
                 /\ UNCHANGED ddl_i
            ELSE /\ stdout' = Append(stdout, [msg |-> "adding_ddl", n |-> ddl_i])
                 /\ ddl_i' = ddl_i + 1
                 /\ UNCHANGED pc
    /\ UNCHANGED <<args, env, db, fs, ddl_statements, file_exists, sql_queries, i,
                   asked, failed, file_reads>>

\* the SQL step taken whatever --skip-sql-train says
EndTrainDdl_IgnoresSkip ==
    /\ pc = "train_ddl"
    /\ ddl_i > Len(ddl_statements)
    /\ pc' = "extract"
    /\ UNCHANGED <<args, env, db, fs, ddl_statements, file_exists, sql_queries,
                   ddl_i, i, trained, asked, failed, stdout, file_reads>>

\* line 182: after the DDL loop
EndTrainDdl ==
    /\ pc = "train_ddl"
    /\ ddl_i > Len(ddl_statements)
    /\ pc' = IF args.skip_sql_train THEN "finish" ELSE "extract"
    /\ UNCHANGED <<args, env, db, fs, ddl_statements, file_exists, sql_queries,
                   ddl_i, i, trained, asked, failed, stdout, file_reads>>

\* lines 183-192: the SQL file is extracted
Extract ==
    /\ pc = "extract"
    /\ LET r == extract_sql_queries(fs) IN
         /\ file_exists' = r.ret[1]
         /\ sql_queries' = r.ret[2]
         /\ file_reads' = file_reads + r.reads
         /\ IF ~r.ret[1]
            THEN /\ stdout' = Append(stdout, [msg |-> "info_not_found"])
                 /\ pc' = "finish"
            ELSE IF r.ret[2] = <<>>
            THEN /\ stdout' = Append(stdout, [msg |-> "info_no_valid_queries"])
                 /\ pc' = "finish"
            ELSE /\ stdout' = stdout
                 /\ pc' = "train_sql"
    /\ i' = 1
    /\ UNCHANGED <<args, env, db, fs, ddl_statements, ddl_i, trained, asked, failed>>

\* what one turn of the SQL loop can do: both calls return, generate_question
\* raises, or it returns and the rest of the try body (line 199 or vn.train)
\* raises
Outcomes == {"ok", "generate_raises", "train_raises"}

\* the try around the loop instead of inside it: the first exception ends it
TrainQuery_AbortOnError ==
    /\ pc = "train_sql"
    /\ i <= Len(sql_queries)
    /\ \E outcome \in Outcomes :
         /\ asked' = Append(asked, sql_queries[i])
         /\ trained' = IF outcome = "generate_raises" THEN trained
                       ELSE Append(trained, [sql |-> sql_queries[i],
                                             raised |-> outcome = "train_raises"])
         /\ failed' = IF outcome = "ok" THEN failed ELSE failed \cup {i}
         /\ stdout' = Append(stdout,
                        IF outcome = "ok" THEN [msg |-> "training_on", n |-> i]
                        ELSE [msg |-> "error_training_on", n |-> i])
         /\ pc' = IF outcome = "ok" THEN pc ELSE "finish"
    /\ i' = i + 1
    /\ UNCHANGED <<args, env, db, fs, ddl_statements, file_exists, sql_queries,
                   ddl_i, file_reads>>

\* lines 193-203: one turn of the SQL loop, the try body and its handler
TrainQuery ==
    /\ pc = "train_sql"
    /\ i <= Len(sql_queries)
    /\ \E outcome \in Outcomes :
         /\ asked' = Append(asked, sql_queries[i])
         /\ trained' = IF outcome = "generate_raises" THEN trained
                       ELSE Append(trained, [sql |-> sql_queries[i],
                                             raised |-> outcome = "train_raises"])
         /\ failed' = IF outcome = "ok" THEN failed ELSE failed \cup {i}
         /\ stdout' = Append(stdout,
                        IF outcome = "ok" THEN [msg |-> "training_on", n |-> i]
                        ELSE [msg |-> "error_training_on", n |-> i])
    /\ i' = i + 1
    /\ UNCHANGED <<args, env, db, fs, pc, ddl_statements, file_exists, sql_queries,
                   ddl_i, file_reads>>

\* the SQL loop is exhausted
EndTrainQuery ==
    /\ pc = "train_sql"
    /\ i > Len(sql_queries)
    /\ pc' = "finish"
    /\ UNCHANGED <<args, env, db, fs, ddl_statements, file_exists, sql_queries,
                   ddl_i, i, trained, asked, failed, stdout, file_reads>>

\* lines 205-206
Finish ==
    /\ pc = "finish"
    /\ stdout' = Append(stdout, [msg |-> "success"])
    /\ pc' = "done"
    /\ UNCHANGED <<args, env, db, fs, ddl_statements, file_exists, sql_queries,
                   ddl_i, i, trained, asked, failed, file_reads>>

Init ==
    /\ args \in MainArgs
    /\ env \in MainEnvs
    /\ db \in MainDbs
    /\ fs \in MainFiles
    /\ pc = "main"
    /\ ddl_statements = <<>>
    /\ file_exists = FALSE
    /\ sql_queries = <<>>
    /\ ddl_i = 1
    /\ i = 1
    /\ trained = <<>>
    /\ asked = <<>>
    /\ failed = {}
    /\ stdout = <<>>
    /\ file_reads = 0

Next ==
    \/ LoadConfig
    \/ Connect
    \/ DryRunSchema
    \/ DryRunQueries
    \/ InitVanna
    \/ TrainDdl
    \/ EndTrainDdl
    \/ Extract
    \/ TrainQuery
    \/ EndTrainQuery
    \/ Finish

Spec == Init /\ [][Next]_vars

\* every call of the SQL loop returns or raises, and the interpreter goes on
\* with the statement that follows: the loop and what comes after it are not
\* left waiting
FairSpec ==
    Spec /\ WF_vars(TrainQuery) /\ WF_vars(EndTrainQuery) /\ WF_vars(Finish)

---------------------------------------------------------------------------
(* extract_sql_queries on its own *)

ExtractFilesUpTo(n) == {MissingFile} \cup {FileWith(c) : c \in ContentsUpTo(n)}

InitExtract ==
    /\ args = [skip_train |-> FALSE, skip_sql_train |-> FALSE]
    /\ env = [api_key |-> TRUE, db_creds |-> TRUE]
    /\ db = <<>>
    /\ fs \in ExtractFilesUpTo(MaxPieces)
    /\ pc = "extract_sql_queries"
    /\ ddl_statements = <<>>
    /\ file_exists = FALSE
    /\ sql_queries = <<>>
    /\ ddl_i = 1
    /\ i = 1
    /\ trained = <<>>
    /\ asked = <<>>
    /\ failed = {}
    /\ stdout = <<>>
    /\ file_reads = 0

\* file_exists, sql_queries = extract_sql_queries(args.sql_file)
CallExtract ==
    /\ pc = "extract_sql_queries"
    /\ LET r == extract_sql_queries(fs) IN
         /\ file_exists' = r.ret[1]
         /\ sql_queries' = r.ret[2]
         /\ file_reads' = file_reads + r.reads
    /\ pc' = "returned"
    /\ UNCHANGED <<args, env, db, fs, ddl_statements, ddl_i, i, trained, asked,
                   failed, stdout>>

SpecExtract == InitExtract /\ [][CallExtract]_vars

---------------------------------------------------------------------------
(* get_all_ddl on its own *)

InitDdl ==
    /\ args = [skip_train |-> FALSE, skip_sql_train |-> FALSE]
    /\ env = [api_key |-> TRUE, db_creds |-> TRUE]
    /\ db \in DatabasesUpTo(MaxTables, MaxCols)
    /\ fs = MissingFile
    /\ pc = "get_all_ddl"
    /\ ddl_statements = <<>>
    /\ file_exists = FALSE
    /\ sql_queries = <<>>
    /\ ddl_i = 1
    /\ i = 1
    /\ trained = <<>>
    /\ asked = <<>>
    /\ failed = {}
    /\ stdout = <<>>
    /\ file_reads = 0

\* ddl_statements = get_all_ddl(engine)
CallGetAllDdl ==
    /\ pc = "get_all_ddl"
    /\ ddl_statements' = get_all_ddl(db)
    /\ pc' = "returned"
    /\ UNCHANGED <<args, env, db, fs, file_exists, sql_queries, ddl_i, i, trained,
                   asked, failed, stdout, file_reads>>

SpecDdl == InitDdl /\ [][CallGetAllDdl]_vars

---------------------------------------------------------------------------
(* What the properties of the extractor speak of *)

\* the text of each query
Texts(queries) == [k \in DOMAIN queries |-> Text(queries[k])]

\* the file as extract_sql_queries reads it
Source == ReadFile(fs.content)

Returned == pc = "returned" /\ fs.exists

\* "--" at index m of s
MarkerAt(s, m) == m + 1 <= Len(s) /\ s[m].ch = "-" /\ s[m + 1].ch = "-"

SameLine(s, a, b) == \A k \in a..b : s[k].ch # "\n"

\* the indices of s inside a comment: from a marker to the end of its line
CommentIdx(s) ==
    {p \in 1..Len(s) : \E m \in 1..p : MarkerAt(s, m) /\ SameLine(s, m, p)}

\* the indices of s after a comment marker and before the end of its line
CommentBodyIdx(s) ==
    {p \in 1..Len(s) : \E m \in 1..p : MarkerAt(s, m) /\ m + 2 <= p /\ SameLine(s, m, p)}

\* s without its comments
RECURSIVE Keep(_, _, _)
Keep(s, k, drop) ==
    IF k > Len(s) THEN <<>>
    ELSE (IF k \in drop THEN <<>> ELSE <<s[k]>>) \o Keep(s, k + 1, drop)

Uncommented(s) == Keep(s, 1, CommentIdx(s))

\* index p of s holds statement text: neither white space nor a terminator
IsStatementText(s, p) == s[p].ch \notin SpaceChars /\ s[p].ch # ";"

\* the number of semicolon-delimited segments of s that are not blank (a tail
\* without a semicolon counts): the indices where such a segment begins
NonBlankSegments(s) ==
    Cardinality({p \in 1..Len(s) :
        /\ IsStatementText(s, p)
        /\ \A k \in 1..(p - 1) :
              IsStatementText(s, k) => \E j \in (k + 1)..(p - 1) : s[j].ch = ";"})

\* everything from the beginning of its line to index p of s is white space
OnlySpaceBefore(s, p) ==
    \A k \in 1..(p - 1) : SameLine(s, k, p - 1) => s[k].ch \in SpaceChars

\* c and d are the same letter in either case, or the same character
SameLetter(c, d) ==
    \/ c = d
    \/ \E k \in DOMAIN LowerLetters : {c, d} = {LowerLetters[k], UpperLetters[k]}

\* f[a..b] is a verb, whatever its case
IsVerb(f, a, b) ==
    \E v \in Verbs :
        /\ Len(v) = b - a + 1
        /\ \A k \in 1..Len(v) : SameLetter(f[a + k - 1].ch, v[k])

\* f[a..b] is a whole word of f: a maximal run of word characters
IsWholeWord(f, a, b) ==
    /\ a <= b
    /\ \A k \in a..b : f[k].ch \in WordChars
    /\ (a = 1 \/ f[a - 1].ch \notin WordChars)
    /\ (b = Len(f) \/ f[b + 1].ch \notin WordChars)

HasVerbWord(f) ==
    \E a, b \in 1..Len(f) : IsWholeWord(f, a, b) /\ IsVerb(f, a, b)

HasVerbInside(f) ==
    \E a, b \in 1..Len(f) : a <= b /\ IsVerb(f, a, b)

\* the trimmed non-empty fragments of all the blocks, in order
Fragments(content) ==
    LET query_blocks == SplitBlocks(content)
    IN  ConcatAll([k \in DOMAIN query_blocks |->
                      IndividualQueries(StripComments(query_blocks[k]))])

RECURSIVE Sum(_)
Sum(ns) == IF ns = <<>> THEN 0 ELSE Head(ns) + Sum(Tail(ns))

ExpectedScenario2 ==
    << <<"S","E","L","E","C","T"," ","*"," ","F","R","O","M"," ","u","s","e","r","s",";">>,
       <<"U","P","D","A","T","E"," ","u","s","e","r","s"," ","S","E","T"," ","x","=","1",";">> >>

TruncatedInline ==
    << <<"S","E","L","E","C","T"," ","a",";">> >>

ExpectedSelect1 ==
    << <<"S","E","L","E","C","T"," ","1",";">> >>

---------------------------------------------------------------------------
(* Properties of the extractor, under SpecExtract *)

\* C1: no extracted statement holds a character that lay between a comment
\* marker and the end of its line in the file, and the file of scenario 2
\* yields exactly "SELECT * FROM users;" and "UPDATE users SET x=1;".
C1_CommentsDiscarded ==
    Returned =>
        /\ \A k \in DOMAIN sql_queries : \A j \in DOMAIN sql_queries[k] :
              sql_queries[k][j].at \notin CommentBodyIdx(Source)
        /\ fs.content = Scenario2 => Texts(sql_queries) = ExpectedScenario2

\* C3: a missing file gives (False, []) and is not opened; an existing file,
\* whatever it holds, gives (True, queries) and is opened once: the first
\* component tells the two apart.
C3_MissingFileDistinct ==
    pc = "returned" =>
        /\ file_exists = fs.exists
        /\ ~fs.exists => sql_queries = <<>> /\ file_reads = 0
        /\ fs.exists => file_reads = 1

\* C3 witness: an existing file with text and no valid statement was extracted
C3_Witness ==
    /\ pc = "returned"
    /\ fs.exists /\ fs.content # <<>>
    /\ file_exists /\ sql_queries = <<>>

\* C5: every returned string ends with a semicolon, holds no other semicolon,
\* and neither begins nor ends with white space.
C5_SingleSemicolonTrimmed ==
    pc = "returned" =>
        \A k \in DOMAIN sql_queries :
            LET q == Text(sql_queries[k]) IN
            /\ Len(q) >= 1
            /\ q[Len(q)] = ";"
            /\ \A j \in 1..(Len(q) - 1) : q[j] # ";"
            /\ q[1] \notin SpaceChars
            /\ q[Len(q)] \notin SpaceChars

\* C5 witness: a returned statement whose text was followed in the file by
\* white space and then its terminator
C5_Witness ==
    /\ Returned
    /\ \E k \in DOMAIN sql_queries :
         LET q == sql_queries[k]
             last == q[Len(q) - 1].at
         IN  /\ Len(q) >= 2
             /\ last + 2 <= Len(fs.content)
             /\ fs.content[last + 1] \in SpaceChars
             /\ fs.content[last + 2] = ";"

\* C6 as stated: the number of returned statements never exceeds the number
\* of semicolon-delimited segments of the file with every comment removed.
C6_CountWithinStrippedText ==
    Returned => Len(sql_queries) <= NonBlankSegments(Uncommented(Source))

\* C6 amended: the number of returned statements never exceeds the number of
\* semicolon-delimited non-blank segments of the blocks, each block with its
\* own comments removed.
C6_CountWithinStrippedBlocks ==
    Returned =>
        LET query_blocks == SplitBlocks(Source) IN
        Len(sql_queries) <=
            Sum([k \in DOMAIN query_blocks |->
                    NonBlankSegments(Uncommented(query_blocks[k]))])

\* C6 witness: several blocks, a segment that was dropped and statements that
\* were returned
C6_Witness ==
    /\ Returned
    /\ Len(SplitBlocks(Source)) >= 2
    /\ Len(sql_queries) >= 1
    /\ Len(sql_queries) < Len(Fragments(Source))

\* C7: a trimmed non-empty fragment is returned (with its semicolon) if and
\* only if one of its whole words is a verb in any case; "UPDATED_AT = now()"
\* yields nothing and "SELECT 1;" yields "SELECT 1;".
C7_VerbBoundary ==
    Returned =>
        /\ LET kept == SelectSeq(Fragments(Source), HasVerbWord)
           IN  Texts(sql_queries) = [k \in DOMAIN kept |-> Append(Text(kept[k]), ";")]
        /\ fs.content = ScenarioUpdatedAt => sql_queries = <<>>
        /\ fs.content = ScenarioSelect1 => Texts(sql_queries) = ExpectedSelect1

\* C7 witness: a fragment with a verb inside a longer word was dropped and a
\* fragment with a verb in lower case was returned
C7_Witness ==
    /\ Returned
    /\ \E k \in DOMAIN Fragments(Source) :
         LET f == Fragments(Source)[k] IN HasVerbInside(f) /\ ~HasVerbWord(f)
    /\ \E k \in DOMAIN sql_queries :
         \E j \in DOMAIN sql_queries[k] : sql_queries[k][j].ch = "w"

\* C9: a block ends only at a line that holds nothing but a comment, never at
\* a comment that follows SQL text on its line, and "SELECT a -- col\nFROM t;"
\* is not returned as "SELECT a;".
C9_BlocksEndAtCommentLines ==
    Returned =>
        /\ LET matches == DelimiterMatches(Source, 1) IN
           \A k \in DOMAIN matches : OnlySpaceBefore(Source, matches[k][1])
        /\ fs.content = ScenarioInline => Texts(sql_queries) # TruncatedInline

---------------------------------------------------------------------------
(* Properties of the DDL synthesizer, under SpecDdl *)

\* the tables the inspector reports with at least one column
TablesWithColumns == SelectSeq(db, LAMBDA t : t.columns # <<>>)

\* the strings of tokens between the occurrences of sep
RECURSIVE SplitOn(_, _)
SplitOn(tokens, sep) ==
    IF \A k \in DOMAIN tokens : tokens[k] # sep THEN <<tokens>>
    ELSE LET at == CHOOSE k \in DOMAIN tokens :
                      tokens[k] = sep /\ \A j \in 1..(k - 1) : tokens[j] # sep
         IN  <<SubSeq(tokens, 1, at - 1)>>
                 \o SplitOn(SubSeq(tokens, at + 1, Len(tokens)), sep)

\* the column lines of a statement: what lies between its head and its end
DdlLines(stmt) == SplitOn(SubSeq(stmt, 4, Len(stmt) - 1), ",\n  ")

\* line is the rendering of column: its name, its type, and " NOT NULL" if
\* and only if its nullable value is there and false
LineMirrors(line, column) ==
    /\ Len(line) \in {3, 4}
    /\ line[1] = column.name
    /\ line[2] = " "
    /\ line[3] = column.type
    /\ Len(line) = 4 => line[4] = " NOT NULL"
    /\ Len(line) = 4 <=> ("nullable" \in DOMAIN column /\ column.nullable = FALSE)

ExpectedUsersDdl ==
    <<"CREATE TABLE ", "users", " (\n  ", "id", " ", "INTEGER", " NOT NULL",
      ",\n  ", "email", " ", "VARCHAR", "\n);">>

\* C2: a table without columns yields no statement and the other tables
\* still yield theirs: one statement for each table with a column, in order.
C2_EmptyTableSkipped ==
    pc = "returned" =>
        /\ Len(ddl_statements) = Len(TablesWithColumns)
        /\ \A k \in DOMAIN ddl_statements :
              k <= Len(TablesWithColumns) => ddl_statements[k][2] = TablesWithColumns[k].name

\* C8: when every table has a column, there is one statement for each table
\* in the order of the tables, and each holds one line for each column in the
\* order of the columns, ending in " NOT NULL" if and only if the column's
\* nullable value is false (a column without one has no such ending).
C8_DdlMirrorsIntrospection ==
    (pc = "returned" /\ \A k \in DOMAIN db : db[k].columns # <<>>) =>
        /\ Len(ddl_statements) = Len(db)
        /\ \A k \in DOMAIN db :
              LET stmt == ddl_statements[k]
                  lines == DdlLines(stmt)
              IN  /\ stmt[1] = "CREATE TABLE "
                  /\ stmt[2] = db[k].name
                  /\ stmt[3] = " (\n  "
                  /\ stmt[Len(stmt)] = "\n);"
                  /\ Len(lines) = Len(db[k].columns)
                  /\ \A j \in DOMAIN lines : LineMirrors(lines[j], db[k].columns[j])
        /\ db = <<UsersTable>> => ddl_statements = <<ExpectedUsersDdl>>

\* C8 witness: two tables, one of which lists a column without nullability
\* before a NOT NULL column whose name sorts before it
C8_Witness ==
    /\ pc = "returned"
    /\ Len(db) = 2
    /\ \A k \in DOMAIN db : db[k].columns # <<>>
    /\ \E k \in DOMAIN db :
         /\ Len(db[k].columns) = 2
         /\ db[k].columns[1].name = "note"
         /\ db[k].columns[2].name = "id"
         /\ ddl_statements[k][Len(ddl_statements[k]) - 1] = " NOT NULL"

---------------------------------------------------------------------------
(* Properties of main, under Spec and FairSpec *)

\* the DDL statements and the SQL statements handed to vn.train, in order
DdlSubmitted ==
    LET calls == SelectSeq(trained, LAMBDA c : "ddl" \in DOMAIN c)
    IN  [k \in DOMAIN calls |-> calls[k].ddl]

PairsSubmitted == SelectSeq(trained, LAMBDA c : "sql" \in DOMAIN c)

\* what was printed, by kind of line
Printed(kind) == SelectSeq(stdout, LAMBDA line : line.msg = kind)

PrintedTexts(kind) ==
    LET lines == Printed(kind) IN [k \in DOMAIN lines |-> lines[k].text]

Succeeded == pc = "done" /\ Printed("success") # <<>>

\* C4: in the SQL loop the statements before position i have been attempted,
\* in order, whatever failed; and a run that is in the loop reaches its end
\* with every statement attempted and the closing message printed.
C4_IsolateAndContinue ==
    /\ [](pc = "train_sql" =>
            /\ i \in 1..(Len(sql_queries) + 1)
            /\ asked = SubSeq(sql_queries, 1, i - 1))
    /\ (pc = "train_sql") ~> (Succeeded /\ asked = sql_queries)

\* C4 witness: a run over several statements, the first of which failed, has
\* ended with every statement attempted
C4_Witness ==
    /\ Succeeded
    /\ Len(sql_queries) >= 2
    /\ 1 \in failed
    /\ asked = sql_queries

\* the parts of C10 that speak of what a run never does, and of what
\* --skip-train prints
SkipFlagsSafety ==
    /\ args.skip_train =>
          /\ trained = <<>> /\ asked = <<>>
          /\ (pc = "done" /\ Printed("connected") # <<>>) =>
                /\ PrintedTexts("ddl") = ddl_statements
                /\ ~args.skip_sql_train => PrintedTexts("query") = Texts(sql_queries)
                /\ args.skip_sql_train => file_reads = 0 /\ Printed("query") = <<>>
    /\ (args.skip_sql_train /\ ~args.skip_train) =>
          /\ file_reads = 0
          /\ asked = <<>>
          /\ PairsSubmitted = <<>>

===========================================================================
